---- MODULE Spec2Model ----
(***************************************************************************)
(* Car Management API (expressDatabase.js): the per-request connection     *)
(* middleware, the four /car route handlers and the root route, over a     *)
(* mysql2 connection pool and the `car` table.                             *)
(*                                                                         *)
(* Scheduling: Node's single-threaded event loop.  Every action below is   *)
(* one run-to-completion callback: from the resolution of one awaited      *)
(* promise to the next suspension point, microtask continuations included. *)
(* The database executes the commands queued on one connection in FIFO     *)
(* order and the commands of different connections in any order.           *)
(***************************************************************************)
EXTENDS Integers, Sequences, FiniteSets, TLC

\* ---------------------------------------------------------------- bounds
NReq == 2          \* request slots that can be in flight at the same time
PoolSize == 2      \* connections the pool can hand out
MaxArrivals == 4   \* requests that arrive in one behaviour
MaxIdArg == 2      \* largest id a PUT body or a DELETE path names

Reqs == 1..NReq
Conns == 1..PoolSize
NoReq == 0
NoConn == 0

\* ------------------------------------------------------- request inputs
\* the JSON bodies a client sends with POST and PUT: make, model, year and,
\* as the README allows, an extra deleted_flag (-1 stands for "not sent")
CarInputs ==
  { [make |-> "Ford", model |-> "Taurus", year |-> 2024, deleted_flag |-> -1],
    [make |-> "Ford", model |-> "Taurus", year |-> 2024, deleted_flag |-> 1],
    [make |-> "Honda", model |-> "Civic", year |-> 2020, deleted_flag |-> 0] }

IdArgs == 1..MaxIdArg

\* the :id segment of DELETE /car/:id is text
PathIdOf(n) == CASE n = 1 -> "1" [] n = 2 -> "2" [] n = 3 -> "3" [] OTHER -> "4"

\* MySQL compares the text bound to :carId with the integer column by
\* converting the text to a number
SqlNum(s) == CASE s = "1" -> 1 [] s = "2" -> 2 [] s = "3" -> 3 [] s = "4" -> 4 [] OTHER -> 0

NoBody == [id |-> 0, make |-> "", model |-> "", year |-> 0, deleted_flag |-> -1]
NoRequest == [method |-> "", body |-> NoBody, paramId |-> "", db |-> NoConn]

\* the requests a client can send: method and path, JSON body, path parameter
Requests ==
  { [NoRequest EXCEPT !.method = m] : m \in {"GET /", "GET /car"} }
  \cup { [NoRequest EXCEPT !.method = "POST /car",
                           !.body = [id |-> 0, make |-> i.make, model |-> i.model,
                                     year |-> i.year, deleted_flag |-> i.deleted_flag]] :
           i \in CarInputs }
  \cup { [NoRequest EXCEPT !.method = "PUT /car",
                           !.body = [id |-> n, make |-> i.make, model |-> i.model,
                                     year |-> i.year, deleted_flag |-> i.deleted_flag]] :
           n \in IdArgs, i \in CarInputs }
  \cup { [NoRequest EXCEPT !.method = "DELETE /car/:id", !.paramId = PathIdOf(n)] :
           n \in IdArgs }

\* whether request object q is one of the requests of set Q (req.db apart)
IsOf(q, Q) == [q EXCEPT !.db = NoConn] \in Q

\* the routes whose handler issues a query
CarRoutes == {"GET /car", "POST /car", "PUT /car", "DELETE /car/:id"}

\* a request no route matches: the README's update URL, PUT /car/:id
Unrouted == { [NoRequest EXCEPT !.method = "PUT /car/:id", !.paramId = PathIdOf(1)] }

\* a CORS preflight: cors(corsOptions) answers it itself
Preflights == { [NoRequest EXCEPT !.method = "OPTIONS /car"] }

\* a POST /car whose body is not JSON text: bodyParser.json() rejects it
Malformed == { [NoRequest EXCEPT !.method = "POST /car (malformed body)"] }

\* ------------------------------------------------------------ responses
NoEcho == [id |-> 0, make |-> "", model |-> "", year |-> 0]
NoRes ==
  [status |-> 0, from |-> "", keys |-> {}, error |-> "", details |-> "",
   echo |-> NoEcho, cars |-> {}]

\* -------------------------------------------------------- query results
\* what a query's promise settles with: the statement it answers, the rows
\* of a SELECT or the header of a write (insertId, affectedRows), or the
\* error's message
NoReply ==
  [state |-> "none", sql |-> "", rows |-> {}, insertId |-> 0, affectedRows |-> 0,
   message |-> ""]
QueryError == "query failed"
PoolError == "no connection"

VARIABLES
  car,       \* the car table: id -> [make, model, year, deleted_flag]
  nextId,    \* the table's AUTO_INCREMENT counter
  owner,     \* pool: connection -> request it is checked out to, or NoReq
  cmdq,      \* connection -> commands queued on it, not yet executed
  pc,        \* request slot -> where its middleware / handler is suspended
  req,       \* request slot -> the request object (method, body, params, db)
  reply,     \* request slot -> result of the query it last awaited
  res,       \* request slot -> the response sent, or NoRes
  arrivals,  \* requests that have arrived so far
  deletedOk, \* history: ids of rows a DELETE has answered success for
  released   \* history: request slot -> req.db.release() calls of the request

vars ==
  <<car, nextId, owner, cmdq, pc, req, reply, res, arrivals, deletedOk, released>>

Init ==
  /\ car = << >>
  /\ nextId = 1
  /\ owner = [c \in Conns |-> NoReq]
  /\ cmdq = [c \in Conns |-> << >>]
  /\ pc = [r \in Reqs |-> "idle"]
  /\ req = [r \in Reqs |-> NoRequest]
  /\ reply = [r \in Reqs |-> NoReply]
  /\ res = [r \in Reqs |-> NoRes]
  /\ arrivals = 0
  /\ deletedOk = {}
  /\ released = [r \in Reqs |-> 0]

\* ------------------------------------------------------------------ SQL
\* the statements of the handlers, as the storage engine executes them

Row(t, i) ==
  [id |-> i, make |-> t[i].make, model |-> t[i].model, year |-> t[i].year,
   deleted_flag |-> t[i].deleted_flag]

\* faulty variant: the WHERE clause is missing
SqlSelectAll(t) == { Row(t, i) : i \in DOMAIN t }

\* SELECT * FROM car WHERE deleted_flag = 0
SqlSelectActive(t) == { Row(t, i) : i \in {j \in DOMAIN t : t[j].deleted_flag = 0} }

\* faulty variant: the new row is not written as active
SqlInsertFlagged(t, n, a) ==
  [i \in DOMAIN t \cup {n} |->
     IF i = n
       THEN [make |-> a.make, model |-> a.model, year |-> a.year, deleted_flag |-> 1]
       ELSE t[i]]

\* INSERT INTO car (make, model, year, deleted_flag) VALUES (:make, :model, :year, 0)
SqlInsert(t, n, a) ==
  [i \in DOMAIN t \cup {n} |->
     IF i = n
       THEN [make |-> a.make, model |-> a.model, year |-> a.year, deleted_flag |-> 0]
       ELSE t[i]]

\* faulty variant: the UPDATE also resets deleted_flag
SqlUpdateResetsFlag(t, a) ==
  [i \in DOMAIN t |->
     IF i = a.id
       THEN [make |-> a.make, model |-> a.model, year |-> a.year, deleted_flag |-> 0]
       ELSE t[i]]

\* UPDATE car SET make = :make, model = :model, year = :year WHERE id = :id
SqlUpdate(t, a) ==
  [i \in DOMAIN t |->
     IF i = a.id
       THEN [t[i] EXCEPT !.make = a.make, !.model = a.model, !.year = a.year]
       ELSE t[i]]

\* faulty variant: a hard delete
SqlHardDelete(t, a) == [i \in DOMAIN t \ {SqlNum(a.carId)} |-> t[i]]

\* faulty variant: the statement flips the flag, so a repeated DELETE restores the row
SqlToggleDelete(t, a) ==
  [i \in DOMAIN t |->
     IF i = SqlNum(a.carId)
       THEN [t[i] EXCEPT !.deleted_flag = 1 - t[i].deleted_flag]
       ELSE t[i]]

\* UPDATE car SET deleted_flag = 1 WHERE id = :carId
SqlSoftDelete(t, a) ==
  [i \in DOMAIN t |->
     IF i = SqlNum(a.carId) THEN [t[i] EXCEPT !.deleted_flag = 1] ELSE t[i]]

\* rows the WHERE clause of an UPDATE matches
Matched(t, n) == IF n \in DOMAIN t THEN 1 ELSE 0

NoArgs == [id |-> 0, carId |-> "", make |-> "", model |-> "", year |-> 0]
Cmd(r, sql, a) == [req |-> r, sql |-> sql, args |-> a]

\* ------------------------------------------------------------- handlers
\* each handler is an async function: it issues one query (XxxQuery), is
\* suspended, and on the query's settlement sends its response (XxxResponse)

ErrorBody(from, error, message) ==
  [NoRes EXCEPT !.status = 500, !.from = from, !.keys = {"error", "details"},
                !.error = error, !.details = message]

\* cors(corsOptions) ends a preflight with its optionsSuccessStatus; the
\* options object spells the key optionSuccessStatus, so the default applies
preflightResponse == [NoRes EXCEPT !.status = 204, !.from = "cors"]

\* bodyParser.json() passes a parse error with status 400 to next(err); no
\* error handler is registered, so Express's own answers with that status
parseErrorResponse == [NoRes EXCEPT !.status = 400, !.from = "express", !.keys = {"text"}]

\* next() past the last route: Express's final handler answers 404
notFoundResponse == [NoRes EXCEPT !.status = 404, !.from = "express", !.keys = {"text"}]

\* app.get('/')
rootResponse ==
  [NoRes EXCEPT !.status = 200, !.from = "handler", !.keys = {"text"}]

\* faulty variant: the catch block answers without details
getCarResponseNoDetails(q, rep) ==
  IF rep.state = "ok"
    THEN [NoRes EXCEPT !.status = 200, !.from = "handler", !.keys = {"cars"},
                       !.cars = rep.rows]
    ELSE [NoRes EXCEPT !.status = 500, !.from = "handler", !.keys = {"error"},
                       !.error = "Failed to retrieve car data"]

\* app.get("/car")
getCarQuery(r, q) == Cmd(r, "SELECT", NoArgs)
getCarResponse(q, rep) ==
  IF rep.state = "ok"
    THEN [NoRes EXCEPT !.status = 200, !.from = "handler", !.keys = {"cars"},
                       !.cars = rep.rows]
    ELSE ErrorBody("handler", "Failed to retrieve car data", rep.message)

\* faulty variant: the response takes id from the request body, not from insertId
postCarResponseBodyId(q, rep) ==
  IF rep.state = "ok"
    THEN [NoRes EXCEPT !.status = 200, !.from = "handler",
                       !.keys = {"id", "make", "model", "year", "success"},
                       !.echo = [id |-> q.body.id, make |-> q.body.make,
                                 model |-> q.body.model, year |-> q.body.year]]
    ELSE [NoRes EXCEPT !.status = 500, !.from = "handler", !.keys = {"error", "details"},
                       !.error = "Failed to create car", !.details = rep.message]

\* app.post("/car"): const { make, model, year } = req.body
postCarQuery(r, q) ==
  Cmd(r, "INSERT",
      [NoArgs EXCEPT !.make = q.body.make, !.model = q.body.model, !.year = q.body.year])
postCarResponse(q, rep) ==
  IF rep.state = "ok"
    THEN [NoRes EXCEPT !.status = 200, !.from = "handler",
                       !.keys = {"id", "make", "model", "year", "success"},
                       !.echo = [id |-> rep.insertId, make |-> q.body.make,
                                 model |-> q.body.model, year |-> q.body.year]]
    ELSE ErrorBody("handler", "Failed to create car", rep.message)

\* faulty variant: an UPDATE that matched no row is answered 404
putCarResponseNotFound(q, rep) ==
  IF rep.state = "ok"
    THEN IF rep.affectedRows = 0
           THEN [NoRes EXCEPT !.status = 404, !.from = "handler",
                              !.keys = {"error", "details"}, !.error = "Car not found"]
           ELSE [NoRes EXCEPT !.status = 200, !.from = "handler",
                              !.keys = {"id", "make", "model", "year", "success"},
                              !.echo = [id |-> q.body.id, make |-> q.body.make,
                                        model |-> q.body.model, year |-> q.body.year]]
    ELSE [NoRes EXCEPT !.status = 500, !.from = "handler", !.keys = {"error", "details"},
                       !.error = "Failed to update car", !.details = rep.message]

\* app.put("/car"): const { id, make, model, year } = req.body
putCarQuery(r, q) ==
  Cmd(r, "UPDATE",
      [NoArgs EXCEPT !.id = q.body.id, !.make = q.body.make, !.model = q.body.model,
                     !.year = q.body.year])
putCarResponse(q, rep) ==
  IF rep.state = "ok"
    THEN [NoRes EXCEPT !.status = 200, !.from = "handler",
                       !.keys = {"id", "make", "model", "year", "success"},
                       !.echo = [id |-> q.body.id, make |-> q.body.make,
                                 model |-> q.body.model, year |-> q.body.year]]
    ELSE ErrorBody("handler", "Failed to update car", rep.message)

\* faulty variant: a soft delete that matched no row is answered 404
deleteCarResponseNotFound(q, rep) ==
  IF rep.state = "ok"
    THEN IF rep.affectedRows = 0
           THEN [NoRes EXCEPT !.status = 404, !.from = "handler",
                              !.keys = {"error", "details"}, !.error = "Car not found"]
           ELSE [NoRes EXCEPT !.status = 200, !.from = "handler", !.keys = {"success"}]
    ELSE [NoRes EXCEPT !.status = 500, !.from = "handler", !.keys = {"error", "details"},
                       !.error = "Failed to delete car", !.details = rep.message]

\* app.delete("/car/:id"): const { id: carId } = req.params
deleteCarQuery(r, q) == Cmd(r, "SOFT_DELETE", [NoArgs EXCEPT !.carId = q.paramId])
deleteCarResponse(q, rep) ==
  IF rep.state = "ok"
    THEN [NoRes EXCEPT !.status = 200, !.from = "handler", !.keys = {"success"}]
    ELSE ErrorBody("handler", "Failed to delete car", rep.message)

\* the router's choice of handler for a request
RouteQuery(r, q) ==
  CASE q.method = "GET /car" -> getCarQuery(r, q)
    [] q.method = "POST /car" -> postCarQuery(r, q)
    [] q.method = "PUT /car" -> putCarQuery(r, q)
    [] OTHER -> deleteCarQuery(r, q)

RouteResponse(q, rep) ==
  CASE q.method = "GET /car" -> getCarResponse(q, rep)
    [] q.method = "POST /car" -> postCarResponse(q, rep)
    [] q.method = "PUT /car" -> putCarResponse(q, rep)
    [] OTHER -> deleteCarResponse(q, rep)

\* the middleware's catch block: res.status(500).json({error, details: err.message})
middlewareError(message) ==
  ErrorBody("middleware", "Unable to connect to cars database", message)

\* ---------------------------------------------------------------- pool
\* faulty variant: the call returns without putting the connection back
ReleaseNothing(o, c) == o

\* req.db.release(): the connection goes back to the pool
Release(o, c) == [o EXCEPT ![c] = NoReq]

\* -------------------------------------------------------------- actions

\* a request arrives and takes the lowest free slot (slots only name the
\* requests in flight); cors and bodyParser.json() have run and the
\* connection middleware calls databasePool.getConnection()
Arrive(r) ==
  /\ pc[r] \in {"idle", "done"}
  /\ \A p \in Reqs : p < r => pc[p] \notin {"idle", "done"}
  /\ arrivals < MaxArrivals
  /\ \E q \in Requests \cup Unrouted : req' = [req EXCEPT ![r] = q]
  /\ pc' = [pc EXCEPT ![r] = "getConnection"]
  /\ reply' = [reply EXCEPT ![r] = NoReply]
  /\ res' = [res EXCEPT ![r] = NoRes]
  /\ arrivals' = arrivals + 1
  /\ released' = [released EXCEPT ![r] = 0]
  /\ UNCHANGED <<car, nextId, owner, cmdq, deletedOk>>

\* a request arrives that app.use(cors(corsOptions)) or
\* app.use(bodyParser.json()) answers: the connection middleware and the
\* routes never run
ArriveRejected(r) ==
  /\ pc[r] \in {"idle", "done"}
  /\ \A p \in Reqs : p < r => pc[p] \notin {"idle", "done"}
  /\ arrivals < MaxArrivals
  /\ \E q \in Preflights \cup Malformed :
       /\ req' = [req EXCEPT ![r] = q]
       /\ res' = [res EXCEPT ![r] =
                   IF q \in Preflights THEN preflightResponse ELSE parseErrorResponse]
  /\ pc' = [pc EXCEPT ![r] = "done"]
  /\ reply' = [reply EXCEPT ![r] = NoReply]
  /\ arrivals' = arrivals + 1
  /\ released' = [released EXCEPT ![r] = 0]
  /\ UNCHANGED <<car, nextId, owner, cmdq, deletedOk>>

\* getConnection() resolves with a free connection c: req.db = c,
\* namedPlaceholders is set and the first session statement is issued
GetConnection(r, c) ==
  /\ pc[r] = "getConnection"
  /\ owner[c] = NoReq
  /\ owner' = [owner EXCEPT ![c] = r]
  /\ req' = [req EXCEPT ![r].db = c]
  /\ cmdq' = [cmdq EXCEPT ![c] = Append(@, Cmd(r, "SET_MODE", NoArgs))]
  /\ pc' = [pc EXCEPT ![r] = "set_mode"]
  /\ UNCHANGED <<car, nextId, reply, res, arrivals, deletedOk, released>>

\* getConnection() rejects: the catch block runs with req.db undefined
GetConnectionFail(r) ==
  /\ pc[r] = "getConnection"
  /\ res' = [res EXCEPT ![r] = middlewareError(PoolError)]
  /\ pc' = [pc EXCEPT ![r] = "done"]
  /\ UNCHANGED <<car, nextId, owner, cmdq, req, reply, arrivals, deletedOk, released>>

\* the database executes the oldest command queued on connection c
DbExec(c) ==
  /\ cmdq[c] # << >>
  /\ LET k == Head(cmdq[c])
         ok(rows, insertId, affected) ==
           [NoReply EXCEPT !.state = "ok", !.sql = k.sql, !.rows = rows,
                           !.insertId = insertId, !.affectedRows = affected]
     IN /\ cmdq' = [cmdq EXCEPT ![c] = Tail(@)]
        /\ CASE k.sql = "SELECT" ->
                  /\ reply' = [reply EXCEPT ![k.req] = ok(SqlSelectActive(car), 0, 0)]
                  /\ UNCHANGED <<car, nextId>>
             [] k.sql = "INSERT" ->
                  /\ car' = SqlInsert(car, nextId, k.args)
                  /\ nextId' = nextId + 1
                  /\ reply' = [reply EXCEPT ![k.req] = ok({}, nextId, 1)]
             [] k.sql = "UPDATE" ->
                  /\ car' = SqlUpdate(car, k.args)
                  /\ reply' = [reply EXCEPT ![k.req] = ok({}, 0, Matched(car, k.args.id))]
                  /\ UNCHANGED nextId
             [] k.sql = "SOFT_DELETE" ->
                  /\ car' = SqlSoftDelete(car, k.args)
                  /\ reply' = [reply EXCEPT ![k.req] =
                                 ok({}, 0, Matched(car, SqlNum(k.args.carId)))]
                  /\ UNCHANGED nextId
             [] OTHER ->   \* SET SESSION sql_mode / SET time_zone
                  /\ reply' = [reply EXCEPT ![k.req] = ok({}, 0, 0)]
                  /\ UNCHANGED <<car, nextId>>
  /\ UNCHANGED <<owner, pc, req, res, arrivals, deletedOk, released>>

\* the oldest command queued on connection c fails: its promise rejects
DbFail(c) ==
  /\ cmdq[c] # << >>
  /\ LET k == Head(cmdq[c])
     IN /\ cmdq' = [cmdq EXCEPT ![c] = Tail(@)]
        /\ reply' = [reply EXCEPT ![k.req] =
                       [NoReply EXCEPT !.state = "err", !.sql = k.sql,
                                       !.message = QueryError]]
  /\ UNCHANGED <<car, nextId, owner, pc, req, res, arrivals, deletedOk, released>>

\* SET SESSION sql_mode resolved: SET time_zone is issued
SetModeDone(r) ==
  /\ pc[r] = "set_mode"
  /\ reply[r].state = "ok"
  /\ cmdq' = [cmdq EXCEPT ![req[r].db] = Append(@, Cmd(r, "SET_TZ", NoArgs))]
  /\ reply' = [reply EXCEPT ![r] = NoReply]
  /\ pc' = [pc EXCEPT ![r] = "set_tz"]
  /\ UNCHANGED <<car, nextId, owner, req, res, arrivals, deletedOk, released>>

\* faulty variant: the catch block answers without releasing req.db
SessionFailNoRelease(r) ==
  /\ pc[r] \in {"set_mode", "set_tz"}
  /\ reply[r].state = "err"
  /\ res' = [res EXCEPT ![r] =
              [NoRes EXCEPT !.status = 500, !.from = "middleware",
                            !.keys = {"error", "details"},
                            !.error = "Unable to connect to cars database",
                            !.details = reply[r].message]]
  /\ pc' = [pc EXCEPT ![r] = "done"]
  /\ UNCHANGED <<car, nextId, owner, cmdq, req, reply, arrivals, deletedOk, released>>

\* a session statement rejected: catch block, req.db is set, so it is
\* released, and the generic 500 is sent
SessionFail(r) ==
  /\ pc[r] \in {"set_mode", "set_tz"}
  /\ reply[r].state = "err"
  /\ owner' = Release(owner, req[r].db)
  /\ released' = [released EXCEPT ![r] = @ + 1]
  /\ res' = [res EXCEPT ![r] = middlewareError(reply[r].message)]
  /\ pc' = [pc EXCEPT ![r] = "done"]
  /\ UNCHANGED <<car, nextId, cmdq, req, reply, arrivals, deletedOk>>

\* SET time_zone resolved: `await next(); req.db.release();`.
\* next() runs the matched handler synchronously up to its first await and
\* returns undefined, not the handler's promise; `await undefined` resumes
\* the middleware in the same tick, so the release follows at once.
\* GET /: the handler is synchronous and has sent its response by then.
DispatchRoot(r) ==
  /\ pc[r] = "set_tz"
  /\ reply[r].state = "ok"
  /\ req[r].method = "GET /"
  /\ res' = [res EXCEPT ![r] = rootResponse]
  /\ owner' = Release(owner, req[r].db)
  /\ released' = [released EXCEPT ![r] = @ + 1]
  /\ reply' = [reply EXCEPT ![r] = NoReply]
  /\ pc' = [pc EXCEPT ![r] = "done"]
  /\ UNCHANGED <<car, nextId, cmdq, req, arrivals, deletedOk>>

\* no route matches: next() falls through to Express's final handler
DispatchNoRoute(r) ==
  /\ pc[r] = "set_tz"
  /\ reply[r].state = "ok"
  /\ IsOf(req[r], Unrouted)
  /\ res' = [res EXCEPT ![r] = notFoundResponse]
  /\ owner' = Release(owner, req[r].db)
  /\ released' = [released EXCEPT ![r] = @ + 1]
  /\ reply' = [reply EXCEPT ![r] = NoReply]
  /\ pc' = [pc EXCEPT ![r] = "done"]
  /\ UNCHANGED <<car, nextId, cmdq, req, arrivals, deletedOk>>

\* the /car handlers: the handler has issued its query on req.db and is
\* suspended on it when the middleware releases the connection
Dispatch(r) ==
  /\ pc[r] = "set_tz"
  /\ reply[r].state = "ok"
  /\ req[r].method \in CarRoutes
  /\ cmdq' = [cmdq EXCEPT ![req[r].db] = Append(@, RouteQuery(r, req[r]))]
  /\ owner' = Release(owner, req[r].db)
  /\ released' = [released EXCEPT ![r] = @ + 1]
  /\ reply' = [reply EXCEPT ![r] = NoReply]
  /\ pc' = [pc EXCEPT ![r] = "query"]
  /\ UNCHANGED <<car, nextId, req, res, arrivals, deletedOk>>

\* the handler's query settled: res.json(...) or its own catch block
HandlerDone(r) ==
  /\ pc[r] = "query"
  /\ reply[r].state # "none"
  /\ res' = [res EXCEPT ![r] = RouteResponse(req[r], reply[r])]
  /\ pc' = [pc EXCEPT ![r] = "done"]
  /\ deletedOk' =
       IF /\ req[r].method = "DELETE /car/:id"
          /\ reply[r].state = "ok"
          /\ reply[r].affectedRows = 1
         THEN deletedOk \cup {SqlNum(req[r].paramId)}
         ELSE deletedOk
  /\ UNCHANGED <<car, nextId, owner, cmdq, req, reply, arrivals, released>>

Next ==
  \/ \E r \in Reqs : Arrive(r)
  \/ \E r \in Reqs : ArriveRejected(r)
  \/ \E r \in Reqs, c \in Conns : GetConnection(r, c)
  \/ \E r \in Reqs : GetConnectionFail(r)
  \/ \E c \in Conns : DbExec(c)
  \/ \E c \in Conns : DbFail(c)
  \/ \E r \in Reqs : SetModeDone(r)
  \/ \E r \in Reqs : SessionFail(r)
  \/ \E r \in Reqs : DispatchRoot(r)
  \/ \E r \in Reqs : DispatchNoRoute(r)
  \/ \E r \in Reqs : Dispatch(r)
  \/ \E r \in Reqs : HandlerDone(r)

Spec == Init /\ [][Next]_vars

\* ------------------------------------------------------------ properties

\* the step in which the database executes request r's statement `sql`
\* successfully
Executes(r, sql) ==
  /\ req[r].db # NoConn
  /\ cmdq[req[r].db] # << >>
  /\ Head(cmdq[req[r].db]).req = r
  /\ Head(cmdq[req[r].db]).sql = sql
  /\ cmdq'[req[r].db] = Tail(cmdq[req[r].db])
  /\ reply'[r].state = "ok"

\* the step in which request r's handler sends its response
Responds(r) == pc[r] = "query" /\ pc'[r] = "done"

Done(r, m) == pc[r] = "done" /\ req[r].method = m

SameFields(w, t) ==
  /\ w.id \in DOMAIN t
  /\ w.make = t[w.id].make
  /\ w.model = t[w.id].model
  /\ w.year = t[w.id].year
  /\ w.deleted_flag = t[w.id].deleted_flag

\* rows is exactly the rows of table t with deleted_flag = 0
ExactlyActive(rows, t) ==
  /\ \A i \in DOMAIN t : t[i].deleted_flag = 0 => \E w \in rows : w.id = i
  /\ \A w \in rows : SameFields(w, t) /\ t[w.id].deleted_flag = 0
  /\ \A w, x \in rows : w.id = x.id => w = x

\* C1: whatever POST, PUT and DELETE requests came before, the rows a
\* GET /car query returns are exactly the stored rows with deleted_flag = 0
\* at the moment the query executes, and a successful GET /car answers 200
\* with exactly those rows.
C1_ListIsExactlyActive ==
  [][\A r \in Reqs :
       /\ Executes(r, "SELECT") => ExactlyActive(reply'[r].rows, car) /\ car' = car
       /\ (Responds(r) /\ req[r].method = "GET /car" /\ reply[r].state = "ok") =>
            /\ res'[r].status = 200
            /\ "cars" \in res'[r].keys
            /\ res'[r].cars = reply[r].rows]_vars

\* a GET /car has answered a non-empty list that leaves out a soft-deleted row
C1_Witness ==
  \E r \in Reqs :
    /\ Done(r, "GET /car")
    /\ res[r].status = 200
    /\ res[r].cars # {}
    /\ ExactlyActive(res[r].cars, car)
    /\ \E i \in DOMAIN car : car[i].deleted_flag = 1

\* C2: once DELETE /car/:id has answered success for an id that was in
\* storage, the row stays in storage with deleted_flag = 1 and no GET /car
\* query executed from then on returns it; the soft delete itself changes
\* nothing but that row's deleted_flag.
C2_SoftDeleteHidesRow ==
  [][/\ \A n \in deletedOk' :
          /\ n \in DOMAIN car'
          /\ car'[n].deleted_flag = 1
     /\ \A r \in Reqs :
          /\ Executes(r, "SELECT") =>
               \A w \in reply'[r].rows : w.id \notin deletedOk
          /\ (Executes(r, "SOFT_DELETE") /\ SqlNum(req[r].paramId) \in DOMAIN car) =>
               LET n == SqlNum(req[r].paramId)
               IN /\ DOMAIN car' = DOMAIN car
                  /\ car'[n].deleted_flag = 1
                  /\ car'[n].make = car[n].make
                  /\ car'[n].model = car[n].model
                  /\ car'[n].year = car[n].year
                  /\ \A i \in DOMAIN car \ {n} : car'[i] = car[i]
                  /\ reply'[r].affectedRows = 1]_vars

\* a GET /car that arrived after the DELETE's success has answered, without
\* the deleted row, while another row is listed
C2_Witness ==
  \E r \in Reqs, n \in deletedOk :
    /\ Done(r, "GET /car")
    /\ res[r].status = 200
    /\ res[r].cars # {}
    /\ \A w \in res[r].cars : w.id # n
    /\ n \in DOMAIN car
    /\ car[n].deleted_flag = 1
    /\ car[n].make # ""

C5_MissingIdIsSilentSuccess ==
  [][\A r \in Reqs :
       /\ (Executes(r, "UPDATE") /\ req[r].body.id \notin DOMAIN car) =>
            car' = car /\ nextId' = nextId /\ reply'[r].affectedRows = 0
       /\ (Executes(r, "SOFT_DELETE") /\ SqlNum(req[r].paramId) \notin DOMAIN car) =>
            car' = car /\ nextId' = nextId /\ reply'[r].affectedRows = 0
       /\ ( /\ Responds(r)
            /\ req[r].method \in {"PUT /car", "DELETE /car/:id"}
            /\ reply[r].state = "ok"
            /\ reply[r].affectedRows = 0 ) =>
            /\ res'[r].status = 200
            /\ "success" \in res'[r].keys
            /\ "error" \notin res'[r].keys]_vars

\* a PUT and a DELETE naming an id that is not stored have both answered
\* 200 while the table holds another row
C5_Witness ==
  \E r, d \in Reqs :
    /\ Done(r, "PUT /car")
    /\ Done(d, "DELETE /car/:id")
    /\ res[r].status = 200 /\ reply[r].affectedRows = 0
    /\ res[d].status = 200 /\ reply[d].affectedRows = 0
    /\ req[r].body.id \notin DOMAIN car
    /\ SqlNum(req[d].paramId) \notin DOMAIN car
    /\ DOMAIN car # {}

\* C6: a request's connection is in the pool only after its handler has
\* completed: while the handler still awaits its query (it has not sent its
\* response), the connection is checked out to the request.
C6_ReleaseAfterHandler ==
  \A r \in Reqs : pc[r] = "query" => owner[req[r].db] = r

\* the requests using connection c: the one it is checked out to and those
\* with a query pending on it
Users(c) ==
  ({owner[c]} \ {NoReq}) \cup {cmdq[c][i].req : i \in 1..Len(cmdq[c])}

\* C7: no connection is used by two requests at once: the request it is
\* checked out to and the requests with a query pending on it are one and
\* the same.
C7_ExclusiveConnection ==
  \A c \in Conns : Cardinality(Users(c)) <= 1

SessionSql == {"SET_MODE", "SET_TZ"}

\* the handler's query of request r was rejected
HandlerQueryFailed(r) ==
  pc[r] = "done" /\ reply[r].state = "err" /\ reply[r].sql \notin SessionSql

\* C8: a request whose handler's query failed is answered 500 with error and
\* details, details being the failure's message, and holds no connection;
\* once no request is in flight every connection is back in the pool.
C8_QueryFailureAnswered ==
  /\ \A r \in Reqs :
       HandlerQueryFailed(r) =>
         /\ res[r].status = 500
         /\ {"error", "details"} \subseteq res[r].keys
         /\ res[r].details = reply[r].message
         /\ res[r].details # ""
         /\ \A c \in Conns : owner[c] # r
  /\ (\A r \in Reqs : pc[r] \in {"idle", "done"}) =>
       \A c \in Conns : owner[c] = NoReq

\* an INSERT and a SELECT have failed, both were answered 500, and with no
\* request in flight the pool is whole
C8_Witness ==
  /\ \E r, g \in Reqs :
       /\ HandlerQueryFailed(r) /\ reply[r].sql = "INSERT" /\ res[r].status = 500
       /\ HandlerQueryFailed(g) /\ reply[g].sql = "SELECT" /\ res[g].status = 500
  /\ \A r \in Reqs : pc[r] = "done"
  /\ \A c \in Conns : owner[c] = NoReq

AcquisitionFailed(r) ==
  pc[r] = "done" /\ req[r].db = NoConn /\ ~IsOf(req[r], Preflights \cup Malformed)
SessionFailed(r) == pc[r] = "done" /\ reply[r].state = "err" /\ reply[r].sql \in SessionSql

GenericAnswer(r, message) ==
  /\ res[r].status = 500
  /\ res[r].from = "middleware"
  /\ res[r].keys = {"error", "details"}
  /\ res[r].details = message
  /\ \A c \in Conns : owner[c] # r

\* C9 as stated: whichever of connection acquisition, session configuration
\* or the dispatched handler fails, the request holds no connection and is
\* answered by the middleware's generic 500 carrying the failure's message;
\* no handler-specific response is produced.
C9_MiddlewareAnswersEveryFailure ==
  \A r \in Reqs :
    /\ AcquisitionFailed(r) => GenericAnswer(r, PoolError)
    /\ SessionFailed(r) => GenericAnswer(r, reply[r].message)
    /\ HandlerQueryFailed(r) => GenericAnswer(r, reply[r].message)

\* C9 amended: a failure of connection acquisition or of session
\* configuration is answered by the middleware's generic 500 carrying the
\* failure's message, the connection released if one was acquired and no
\* handler query issued; a failure of the dispatched handler's query is
\* answered by the handler's own 500 {error, details}, the connection
\* released.
C9_FailureAnswers ==
  \A r \in Reqs :
    /\ AcquisitionFailed(r) => GenericAnswer(r, PoolError)
    /\ SessionFailed(r) =>
         /\ GenericAnswer(r, reply[r].message)
         /\ \A c \in Conns : \A i \in 1..Len(cmdq[c]) : cmdq[c][i].req # r
    /\ HandlerQueryFailed(r) =>
         /\ res[r].status = 500
         /\ res[r].from = "handler"
         /\ res[r].keys = {"error", "details"}
         /\ res[r].details = reply[r].message
         /\ \A c \in Conns : owner[c] # r

\* one request failed at SET time_zone and was answered by the middleware,
\* another failed in its handler's query and was answered by the handler
C9_Witness ==
  \E r, h \in Reqs :
    /\ SessionFailed(r) /\ reply[r].sql = "SET_TZ" /\ res[r].from = "middleware"
    /\ req[r].db # NoConn /\ owner[req[r].db] = NoReq
    /\ HandlerQueryFailed(h) /\ res[h].from = "handler"

\* C10: the id a POST /car answers is the id storage assigned to its row; it
\* was not in storage before the INSERT and differs from the id answered to
\* every other POST, in whatever order the concurrent INSERTs and responses
\* interleave.
C10_DistinctIds ==
  [][\A r \in Reqs :
       /\ Executes(r, "INSERT") =>
            /\ reply'[r].insertId \notin DOMAIN car
            /\ reply'[r].insertId \in DOMAIN car'
            /\ \A p \in Reqs \ {r} :
                 (req[p].method = "POST /car" /\ reply[p].state = "ok") =>
                   reply[p].insertId # reply'[r].insertId
       /\ (Responds(r) /\ req[r].method = "POST /car" /\ reply[r].state = "ok") =>
            /\ res'[r].echo.id = reply[r].insertId
            /\ res'[r].echo.id \in DOMAIN car
            /\ \A p \in Reqs \ {r} :
                 (Done(p, "POST /car") /\ res[p].status = 200) =>
                   res[p].echo.id # res'[r].echo.id]_vars

\* two POSTs overlapped: one was inserted after the other and has answered
\* 200 while the other, inserted first next to an older row, still awaits
\* its response
C10_Witness ==
  \E r, p \in Reqs :
    /\ Done(r, "POST /car") /\ res[r].status = 200
    /\ req[p].method = "POST /car" /\ pc[p] = "query" /\ reply[p].state = "ok"
    /\ reply[p].insertId < res[r].echo.id
    /\ res[r].echo.id \in DOMAIN car
    /\ \E i \in DOMAIN car : i < reply[p].insertId

C13_ReleasedExactlyOnce ==
  /\ \A r \in Reqs :
       /\ released[r] \in {0, 1}
       /\ released[r] = 1 => req[r].db # NoConn
       /\ req[r].db = NoConn => \A c \in Conns : owner[c] # r
       /\ pc[r] \in {"set_mode", "set_tz"} =>
            /\ released[r] = 0
            /\ \A c \in Conns : owner[c] = r <=> c = req[r].db
       /\ (pc[r] \in {"query", "done"} /\ req[r].db # NoConn) =>
            /\ released[r] = 1
            /\ \A c \in Conns : owner[c] # r
  /\ (\A r \in Reqs : pc[r] \in {"idle", "done"}) =>
       \A c \in Conns : owner[c] = NoReq

\* one request was answered 200 by its handler, another failed at a session
\* statement; each released its connection once and the pool is whole
C13_Witness ==
  /\ \E r, f \in Reqs :
       /\ pc[r] = "done" /\ res[r].status = 200 /\ res[r].from = "handler"
       /\ reply[r].state = "ok" /\ released[r] = 1
       /\ SessionFailed(f) /\ released[f] = 1
  /\ \A c \in Conns : owner[c] = NoReq /\ cmdq[c] = << >>

====
